---- MODULE Spec2Model ----
(***************************************************************************)
(* Model of the DFPlayer serial driver (src/src/lib.rs): the frame codec,  *)
(* the checksum, the incremental frame scanner of read_last_message and    *)
(* the send_command / volume / play / reset session logic, driven by a     *)
(* transport that delivers device bytes in arbitrary read batches.         *)
(*                                                                         *)
(* Bytes are naturals 0..255.  Rust arrays are 0-based, TLA+ sequences are *)
(* 1-based: a Rust index k is the TLA+ index k + 1.                        *)
(***************************************************************************)
EXTENDS Integers, Sequences, FiniteSets, TLC

VARIABLES
    \* --- the transport (port: Read + Write + ReadReady) ---
    rx,                    \* bytes the device has sent that were not read yet
    pending,               \* read_ready(): the receive FIFO holds at least one byte
    answered,              \* the device has sent its burst for the call in progress
    tx,                    \* the last frame written by write_all
    \* --- DfPlayer fields ---
    feedback_enable,
    timeout,
    last_command,
    last_response,
    last_cmd_acknowledged,
    \* --- position of the caller and locals of read_last_message ---
    pc,                    \* "idle", "wait", "reset_send", "reset_delay", "done"
    ctx,                   \* which read_last_message call is running
    call,                  \* the API call in progress (or the last one)
    elapsed,               \* poll intervals slept since timeout_start
    current_index,
    message,
    \* --- what the caller and the test bench observe ---
    result,                \* outcome of the last API call
    rlm,                   \* outcome of the last read_last_message of the call
    consumed,              \* bytes returned by read() during the current wait
    split,                 \* the current wait has read more than one batch
    unscanned,             \* bytes of the last batch the scan loop never looked at
    lastChecksum,          \* the last checksum computed: its input and its value
    wrote,                 \* the call in progress called write_all
    errSeen,               \* param_l of the last valid 0x40 frame decoded in the call
    snapshot               \* last_response / acknowledged flag when the wait began

vars == <<rx, pending, answered, tx, feedback_enable, timeout, last_command,
          last_response, last_cmd_acknowledged, pc, ctx, call, elapsed,
          current_index, message, result, rlm, consumed, split, unscanned,
          lastChecksum, wrote, errSeen, snapshot>>

transportVars == <<rx, pending, answered, tx>>
progVars == <<pc, ctx, elapsed, current_index, message, result>>
callVars == <<call, rlm, wrote, errSeen>>
seenVars == <<consumed, split, unscanned, lastChecksum, snapshot>>
sessionVars == <<last_command, last_response, last_cmd_acknowledged>>
configVars == <<feedback_enable, timeout>>

-----------------------------------------------------------------------------
(* Protocol constants, lib.rs 15-29 *)

START_BYTE == 126
END_BYTE == 239
VERSION == 255
MSG_LEN == 6
DATA_FRAME_SIZE == 10

INDEX_START_BYTE == 0
INDEX_VERSION == 1
INDEX_CMD == 3
INDEX_FEEDBACK_ENABLE == 4
INDEX_PARAM_H == 5
INDEX_PARAM_L == 6
INDEX_CHECKSUM_H == 7
INDEX_CHECKSUM_L == 8
INDEX_END_BYTE == 9

RECEIVE_BUFFER_SIZE == 30

(* Command discriminants used by the model, lib.rs 113-200 *)
CmdPlayTrack == 3
CmdSetVolume == 6
CmdEnterNormalMode == 11
CmdReset == 12
CmdQueryAvailableSources == 63
CmdNotifyError == 64
CmdNotifyReply == 65

MAX_VOLUME == 30
MAX_TRACK == 2999

Byte == 0..255
U16 == 65536

MessageData(command, param_h, param_l) ==
    [command |-> command, param_h |-> param_h, param_l |-> param_l]

ACK_MESSAGE_DATA == MessageData(CmdNotifyReply, 0, 0)

(* Error<E> and Ok(()) as records; code is the ModuleError discriminant *)
R(kind, code) == [kind |-> kind, code |-> code]
None == R("None", 0)
Ok == R("Ok", 0)
ErrSerialPort == R("SerialPort", 0)
ErrFailedAck == R("FailedAck", 0)
ErrUnknown == R("Unknown", 0)
ErrBrokenMessage == R("BrokenMessage", 0)
ErrUserTimeout == R("UserTimeout", 0)
ErrBadParameter == R("BadParameter", 0)
ErrInit == R("Init", 0)
ErrModuleError(code) == R("ModuleError", code)

-----------------------------------------------------------------------------
(* checksum, lib.rs 243-252 *)

RECURSIVE SumBytes(_, _)
SumBytes(buffer, n) ==
    IF n = 0 THEN 0 ELSE (SumBytes(buffer, n - 1) + buffer[n]) % U16

ChecksumQuirkNone(buffer) == 0

\* `if buffer[2] == 0x0 { checksum += 2 }`: buffer[2] is the command byte
ChecksumQuirk(buffer) == IF buffer[2 + 1] = 0 THEN 2 ELSE 0

ChecksumCmdOnly(buffer) == (256 - buffer[2 + 1]) % 256

checksum(buffer) ==
    (U16 - ((SumBytes(buffer, Len(buffer)) + ChecksumQuirk(buffer)) % U16)) % U16

\* one call of checksum as the test bench sees it
ChecksumCall(buffer) == [buf |-> buffer, val |-> checksum(buffer)]
NoChecksumCall == [buf |-> <<>>, val |-> 0]

-----------------------------------------------------------------------------
(* Conversions, lib.rs 64-76 and 202-214 *)

ModuleErrorChecksum == 4

\* impl TryFrom<u8> for ModuleError: 1..=8 are the discriminants
TryFromModuleErrorShort(value) ==
    IF value \in 1..3 THEN [ok |-> TRUE, val |-> value]
    ELSE [ok |-> FALSE, val |-> 0]

TryFromModuleError(value) ==
    IF value \in 1..8 THEN [ok |-> TRUE, val |-> value]
    ELSE [ok |-> FALSE, val |-> 0]

\* impl TryFrom<u8> for Command: `0..=0x1a | 0x3C..=0x4D` are transmuted.
\* 0 is no discriminant of Command, so transmuting it is undefined behaviour:
\* ub is the outcome the build produces there ("ok": the byte is kept as a
\* Command value, "err": the conversion fails).
UBOutcomes == {"ok", "err"}

TryFromCommand(value, ub) ==
    IF value \in 1..26 \/ value \in 60..77 THEN [ok |-> TRUE, val |-> value]
    ELSE IF value = 0 THEN [ok |-> (ub = "ok"), val |-> 0]
    ELSE [ok |-> FALSE, val |-> 0]

-----------------------------------------------------------------------------
(* Encoder of send_command, lib.rs 410-422 *)

Payload(frame) == SubSeq(frame, INDEX_VERSION + 1, INDEX_CHECKSUM_H)

EncodeFrame(data, feedback) ==
    LET body == <<VERSION, MSG_LEN, data.command,
                  IF feedback THEN 1 ELSE 0, data.param_h, data.param_l>>
        ck == checksum(body)
    IN  <<START_BYTE>> \o body \o <<ck \div 256, ck % 256>> \o <<END_BYTE>>

-----------------------------------------------------------------------------
(* The scan loop of read_last_message, lib.rs 315-399 *)

ZeroMessage == [k \in 1..DATA_FRAME_SIZE |-> 0]

\* match arm INDEX_START_BYTE (320-324): only the start marker leaves index 0
AwaitStartAny(byte) == 1

AwaitStart(byte) == IF byte = START_BYTE THEN 1 ELSE 0

\* match arm INDEX_END_BYTE, `if byte != END_BYTE` (327)
EndMarkerAny(byte) == TRUE

EndMarkerOk(byte) == byte = END_BYTE

\* 335-342: the transmitted checksum against the recomputed one
ValidChecksum(msg) ==
    LET read_checksum == msg[INDEX_CHECKSUM_H + 1] * 256 + msg[INDEX_CHECKSUM_L + 1]
        calc_checksum == checksum(Payload(msg))
    IN  read_checksum = calc_checksum

\* 356-358: only a response equal to ACK_MESSAGE_DATA acknowledges
AckOnCommand(resp, ack) == ack \/ resp.command = CmdNotifyReply

AckAfter(resp, ack) == ack \/ resp = ACK_MESSAGE_DATA

\* 370-390: the outcome returned when no more data follows a completed frame
\* (valid_checksum is false here for a frame whose checksum did not match)
FrameOutcomeStale(valid_checksum, resp) ==
    IF resp.command = CmdNotifyError THEN
        LET err == TryFromModuleError(resp.param_l)
        IN  IF err.ok THEN ErrModuleError(err.val) ELSE ErrUnknown
    ELSE IF valid_checksum THEN Ok
    ELSE ErrBrokenMessage

FrameOutcome(valid_checksum, resp) ==
    IF valid_checksum THEN
        IF resp.command = CmdNotifyError THEN
            LET err == TryFromModuleError(resp.param_l)
            IN  IF err.ok THEN ErrModuleError(err.val) ELSE ErrUnknown
        ELSE Ok
    ELSE ErrBrokenMessage

\* 361-367: `i < (cnt - 1) || self.port.read_ready()?`
MoreData(last, more) == (~last) \/ more

\* 367: `current_index = 0` when more data follows a completed frame
IndexKept(idx) == idx

IndexAfterFrame(idx) == 0

\* The scanner's record while one batch is scanned:
\*   idx, msg    current_index and message
\*   resp, ack   self.last_response and self.last_cmd_acknowledged
\*   ret         None, or the value read_last_message returns
\*   brk         the `break` at 392 was taken
\*   used        bytes of the batch looked at
\*   err         param_l of the last valid error-notification decoded, or -1
\*   ub          the undefined conversion of a 0 command byte was executed
\*   ck          the last call of checksum: its input and its value
CompleteFrame(s, msg, last, more, ub) ==
    LET valid == ValidChecksum(msg)
        conv  == TryFromCommand(msg[INDEX_CMD + 1], ub)
        resp  == IF valid
                 THEN MessageData(conv.val, msg[INDEX_PARAM_H + 1], msg[INDEX_PARAM_L + 1])
                 ELSE s.resp
        ack   == IF valid THEN AckAfter(resp, s.ack) ELSE s.ack
        err   == IF valid /\ resp.command = CmdNotifyError THEN resp.param_l ELSE s.err
        ub2   == s.ub \/ (valid /\ msg[INDEX_CMD + 1] = 0)
        ck2   == ChecksumCall(Payload(msg))
    IN  IF valid /\ ~conv.ok
        THEN \* `.map_err(|_| Error::Unknown)?` at 347 leaves the function
             [s EXCEPT !.msg = msg, !.ret = ErrUnknown, !.ub = ub2, !.ck = ck2]
        ELSE IF MoreData(last, more)
        THEN [s EXCEPT !.msg = msg, !.idx = IndexAfterFrame(s.idx), !.resp = resp,
                       !.ack = ack, !.err = err, !.brk = TRUE, !.ub = ub2,
                       !.ck = ck2]
        ELSE [s EXCEPT !.msg = msg, !.resp = resp, !.ack = ack, !.err = err,
                       !.ret = FrameOutcome(valid, resp), !.ub = ub2, !.ck = ck2]

\* one iteration of `for i in 0..cnt` (316-398)
ScanByte(s0, byte, last, more, ub) ==
    LET s   == [s0 EXCEPT !.used = @ + 1]
        msg == [s.msg EXCEPT ![s.idx + 1] = byte]
    IN  IF s.idx = INDEX_START_BYTE
        THEN [s EXCEPT !.msg = msg, !.idx = AwaitStart(byte)]
        ELSE IF s.idx = INDEX_END_BYTE
        THEN IF ~EndMarkerOk(byte)
             THEN [s EXCEPT !.msg = msg, !.idx = 0]
             ELSE CompleteFrame(s, msg, last, more, ub)
        ELSE [s EXCEPT !.msg = msg, !.idx = @ + 1]

\* the for loop over one read batch: it ends at the end of the batch, at the
\* `break` after a completed frame, or when the function returns
RECURSIVE ScanBatch(_, _, _, _, _)
ScanBatch(s, batch, i, more, ub) ==
    IF i > Len(batch) \/ s.ret # None \/ s.brk THEN s
    ELSE ScanBatch(ScanByte(s, batch[i], i = Len(batch), more, ub),
                   batch, i + 1, more, ub)

\* locals declared before the loop (300-302) keep their value across reads
ScannerFresh(idx, msg) == [idx |-> 0, msg |-> ZeroMessage]

ScannerCarried(idx, msg) == [idx |-> idx, msg |-> msg]

Scanner(idx, msg, resp, ack, err, ck) ==
    LET c == ScannerCarried(idx, msg)
    IN  [idx |-> c.idx, msg |-> c.msg, resp |-> resp, ack |-> ack,
         ret |-> None, brk |-> FALSE, used |-> 0, err |-> err, ub |-> FALSE,
         ck |-> ck]

-----------------------------------------------------------------------------
(* Bounds of the model *)

MaxGarbage == 1         \* garbage bytes in front of a frame
MaxTimeout == 0         \* configured timeout, in readiness-poll intervals
MaxSeen == 31           \* bytes of a wait the test bench keeps (the last ones)
MaxBacklog == 2         \* bytes a streaming device keeps ahead of the driver

(* What the device may send.  Frames are literal bytes: they do not depend  *)
(* on the driver's own encoder or checksum.                                 *)

AckFrame      == <<126, 255, 6, 65, 0, 0, 0, 254, 186, 239>>
ErrorFrame4   == <<126, 255, 6, 64, 0, 0, 4, 254, 183, 239>>
ErrorFrame9   == <<126, 255, 6, 64, 0, 0, 9, 254, 178, 239>>
InfoFrame     == <<126, 255, 6, 63, 0, 0, 2, 254, 186, 239>>
UnknownFrame  == <<126, 255, 6, 27, 0, 0, 0, 254, 224, 239>>
\* command byte 0: checksum with the driver's +2, and the plain negated sum
ZeroFrameQuirk == <<126, 255, 6, 0, 0, 0, 0, 254, 249, 239>>
ZeroFramePlain == <<126, 255, 6, 0, 0, 0, 0, 254, 251, 239>>
\* the acknowledgement frame of spec section 8 (checksum bytes 00 BF)
SpecAckFrame  == <<126, 255, 6, 65, 0, 0, 0, 0, 191, 239>>
\* an acknowledgement whose end marker is wrong
BadEndFrame   == <<126, 255, 6, 65, 0, 0, 0, 254, 186, 0>>

GarbageBytes == {0, END_BYTE}

RECURSIVE SeqsUpTo(_, _)
SeqsUpTo(S, n) ==
    IF n = 0 THEN {<<>>}
    ELSE LET shorter == SeqsUpTo(S, n - 1)
         IN  shorter \cup {Append(q, b) : q \in shorter, b \in S}

Garbage == SeqsUpTo(GarbageBytes, MaxGarbage) \ {<<>>}

SingleFrames == {AckFrame, ErrorFrame4, ErrorFrame9, InfoFrame, UnknownFrame,
                 ZeroFrameQuirk, ZeroFramePlain, SpecAckFrame, BadEndFrame}

Bursts ==
    SingleFrames
    \cup {g \o AckFrame : g \in Garbage}
    \cup {InfoFrame \o AckFrame, AckFrame \o InfoFrame,
          ErrorFrame4 \o AckFrame, AckFrame \o ErrorFrame4,
          BadEndFrame \o AckFrame, SpecAckFrame \o AckFrame}

(* Inputs of the API calls *)
Volumes == {0, 20, MAX_VOLUME, MAX_VOLUME + 1}
Tracks == {0, MAX_TRACK, MAX_TRACK + 1}

Min(a, b) == IF a < b THEN a ELSE b

\* the last MaxSeen bytes of q
Window(q) ==
    IF Len(q) <= MaxSeen THEN q ELSE SubSeq(q, Len(q) - MaxSeen + 1, Len(q))

-----------------------------------------------------------------------------
(* Control flow *)

\* what the test bench has seen of the current wait
Seen(cons, sp, un) == [consumed |-> cons, split |-> sp, unscanned |-> un]
SeenNothing == Seen(<<>>, FALSE, 0)
SeenNow == Seen(consumed, split, unscanned)

\* every transfer of control: the locals of read_last_message start afresh
\* (298-302) and are gone when it returns
Goto(pc2, ctx2, res2, pend2, seen) ==
    /\ pc' = pc2
    /\ ctx' = ctx2
    /\ result' = res2
    /\ pending' = pend2
    /\ elapsed' = 0
    /\ current_index' = 0
    /\ message' = ZeroMessage
    /\ consumed' = seen.consumed
    /\ split' = seen.split
    /\ unscanned' = seen.unscanned

Done(res, pend2, seen) ==
    /\ Goto("done", ctx, res, pend2, seen)
    /\ snapshot' = snapshot

\* entry of read_last_message (297-302)
StartWait(c, pend2, resp2, ack2) ==
    /\ Goto("wait", c, None, pend2, SeenNothing)
    /\ snapshot' = [resp |-> resp2, ack |-> ack2]

\* 440-448: the acknowledgement check after the wait returned Ok
AckCheckIgnored(ack) == Ok

AckCheck(ack) == IF ack THEN Ok ELSE ErrFailedAck

\* 440: `self.feedback_enable && (command_data.command != Command::Reset)`
NeedsAck(feedback, data) == feedback /\ data.command # CmdReset

\* send_command returned Ok to its caller: reset (464-472), called by the
\* user or by try_new (293), goes on to its delay, every other caller returns
\* the Ok
AfterSend(pend2, seen) ==
    IF call.api \in {"reset", "try_new"}
    THEN /\ Goto("reset_delay", ctx, None, pend2, seen)
         /\ snapshot' = snapshot
    ELSE Done(Ok, pend2, seen)

\* read_ready() right after an empty FIFO was seen: a byte may have arrived
\* since, or the port may fail
ReadyOutcomes(pend2, rx2) ==
    IF pend2 THEN {"ready", "err"}
    ELSE IF rx2 # <<>> THEN {"ready", "empty", "err"}
    ELSE {"empty", "err"}

\* read_last_message returned res to its caller
Resume(res, resp2, ack2, rx2, pend2, seen) ==
    /\ rlm' = res
    /\ IF ctx = "send"
       THEN \* 438: `self.read_last_message().await?`
            IF res # Ok THEN Done(res, pend2, seen)
            ELSE IF NeedsAck(feedback_enable, call.data)
            THEN Done(AckCheck(ack2), pend2, seen)
            ELSE \* 450-453
                 \E r \in ReadyOutcomes(pend2, rx2) :
                    IF r = "err" THEN Done(ErrSerialPort, pend2, seen)
                    ELSE IF r = "ready" THEN StartWait("drain", TRUE, resp2, ack2)
                    ELSE AfterSend(pend2, seen)
       ELSE IF ctx = "drain"
       THEN \* 451: `let _ = self.read_last_message().await`
            AfterSend(pend2, seen)
       ELSE IF ctx = "discard"
       THEN \* 292: `let _ = player.read_last_message().await` in try_new
            /\ Goto("reset_send", "none", None, pend2, seen)
            /\ snapshot' = snapshot
       ELSE \* 472: `self.read_last_message().await?` in reset
            Done(res, pend2, seen)

-----------------------------------------------------------------------------
(* The device and the wire *)

\* The device sends one burst of bytes in answer to a command written to it
\* (its answer, with or without a notification of its own next to it); the
\* first byte is in the FIFO at once.
DeviceSend ==
    /\ pc \in {"wait", "reset_delay"}
    /\ wrote
    /\ rx = <<>>
    /\ ~answered
    /\ \E b \in Bursts : rx' = b
    /\ pending' = TRUE
    /\ answered' = TRUE
    /\ UNCHANGED <<tx, configVars, sessionVars, progVars, callVars, seenVars>>

\* more bytes of the burst reach the FIFO after it had been emptied
Arrive ==
    /\ rx # <<>>
    /\ ~pending
    /\ pending' = TRUE
    /\ UNCHANGED <<rx, answered, tx, configVars, sessionVars, progVars, callVars,
                   seenVars>>

-----------------------------------------------------------------------------
(* send_command, lib.rs 406-455, up to its first suspension in the wait *)

CallRecord(api, arg, data) == [api |-> api, arg |-> arg, data |-> data]
NoCall == CallRecord("none", 0, MessageData(0, 0, 0))

\* 437: `self.last_cmd_acknowledged = false`, after the write and before the
\* wait
AckKept(ack) == ack

AckCleared(ack) == FALSE

\* 410-438 with a write_all that succeeds
SendCommand(api, arg, data) ==
    /\ call' = CallRecord(api, arg, data)
    /\ tx' = EncodeFrame(data, feedback_enable)
    /\ lastChecksum' = ChecksumCall(Payload(EncodeFrame(data, feedback_enable)))
    /\ wrote' = TRUE
    /\ last_command' = data
    /\ last_cmd_acknowledged' = AckCleared(last_cmd_acknowledged)
    /\ last_response' = last_response
    /\ errSeen' = -1
    /\ rlm' = None
    /\ answered' = FALSE
    /\ StartWait("send", pending, last_response, AckCleared(last_cmd_acknowledged))
    /\ UNCHANGED <<rx, configVars>>

\* 425-428: write_all fails, `?` returns SerialPort before any field changes
SendCommandWriteFails(api, arg, data) ==
    /\ call' = CallRecord(api, arg, data)
    /\ lastChecksum' = ChecksumCall(Payload(EncodeFrame(data, feedback_enable)))
    /\ wrote' = TRUE
    /\ errSeen' = -1
    /\ rlm' = None
    /\ Done(ErrSerialPort, pending, SeenNothing)
    /\ UNCHANGED <<rx, answered, tx, configVars, sessionVars>>

\* a range check failed: BadParameter is returned at once (492-494, 500-502)
RejectParameter(api, arg) ==
    /\ call' = CallRecord(api, arg, MessageData(0, 0, 0))
    /\ wrote' = FALSE
    /\ errSeen' = -1
    /\ rlm' = None
    /\ Done(ErrBadParameter, pending, SeenNothing)
    /\ UNCHANGED <<rx, answered, tx, lastChecksum, configVars, sessionVars>>

\* The caller is single-owner and single-in-flight: a call begins when none
\* is running.  The model's caller also waits for a quiet line: the device
\* has nothing left to deliver from an earlier burst.
CanCall == pc = "idle" /\ rx = <<>>

\* 492: `if volume > 30`
VolumeAcceptsAll(volume) == TRUE

VolumeInRange(volume) == ~(volume > MAX_VOLUME)

\* 500: `if track > 2999`
TrackInRange(track) == ~(track > MAX_TRACK)

\* volume, lib.rs 491-497
Volume ==
    /\ CanCall
    /\ \E v \in Volumes :
        IF VolumeInRange(v)
        THEN \/ SendCommand("volume", v, MessageData(CmdSetVolume, 0, v))
             \/ SendCommandWriteFails("volume", v, MessageData(CmdSetVolume, 0, v))
        ELSE RejectParameter("volume", v)

\* play, lib.rs 499-509
Play ==
    /\ CanCall
    /\ \E t \in Tracks :
        IF TrackInRange(t)
        THEN LET data == MessageData(CmdPlayTrack, (t \div 256) % 256, t % 256)
             IN  \/ SendCommand("play", t, data)
                 \/ SendCommandWriteFails("play", t, data)
        ELSE RejectParameter("play", t)

\* reset, lib.rs 460-475: its send_command
Reset ==
    /\ CanCall
    /\ \/ SendCommand("reset", 0, MessageData(CmdReset, 0, 0))
       \/ SendCommandWriteFails("reset", 0, MessageData(CmdReset, 0, 0))

\* reset, 471-472: the delay is over, the flush read begins
ResetDelayDone ==
    /\ pc = "reset_delay"
    /\ StartWait("flush", pending, last_response, last_cmd_acknowledged)
    /\ UNCHANGED <<rx, answered, tx, configVars, sessionVars, callVars, lastChecksum>>

-----------------------------------------------------------------------------
(* read_last_message, lib.rs 297-402: one iteration of its loop *)

\* 304-308: not ready; the timeout is looked at, then 10 ms of sleep
PollNotReady ==
    /\ pc = "wait"
    /\ ~pending
    /\ IF timeout < elapsed
       THEN /\ Resume(ErrUserTimeout, last_response, last_cmd_acknowledged,
                      rx, pending, SeenNow)
            /\ UNCHANGED <<rx, answered, tx, configVars, sessionVars, call, wrote,
                           errSeen, lastChecksum>>
       ELSE /\ elapsed' = elapsed + 1
            /\ UNCHANGED <<transportVars, configVars, sessionVars, pc, ctx,
                           current_index, message, result, callVars, seenVars>>

\* 304 / 314: read_ready or read returns Err(e).  The port of the model fails
\* before the wait has read its first byte, or not at all during the wait.
PortFails ==
    /\ pc = "wait"
    /\ consumed = <<>>
    /\ Resume(ErrSerialPort, last_response, last_cmd_acknowledged,
              rx, pending, SeenNow)
    /\ UNCHANGED <<rx, answered, tx, configVars, sessionVars, call, wrote, errSeen,
                   lastChecksum>>

\* the outcomes of scanning one batch: one, or one per outcome of the
\* undefined conversion when the batch made the scan execute it
ScanOutcomes(sc, batch, more) ==
    LET first == {ScanBatch(sc, batch, 1, more, "ok")}
    IN  first \cup {ScanBatch(sc, batch, 1, more, ub) :
                       ub \in {u \in UBOutcomes : \E f \in first : f.ub /\ u # "ok"}}

\* 310-399: ready; read() returns n bytes and the batch is scanned.  more is
\* what read_ready() answers right after the batch: bytes are left in the FIFO
PollRead ==
    /\ pc = "wait"
    /\ pending
    /\ \E n \in 1..Min(Len(rx), RECEIVE_BUFFER_SIZE), more \in BOOLEAN :
        /\ more => n < Len(rx)
        /\ \E s \in ScanOutcomes(Scanner(current_index, message, last_response,
                                         last_cmd_acknowledged, errSeen,
                                         lastChecksum),
                                 SubSeq(rx, 1, n), more) :
           LET rest == SubSeq(rx, n + 1, Len(rx))
               seen == Seen(Window(consumed \o SubSeq(rx, 1, n)), consumed # <<>>,
                            n - s.used)
           IN  /\ rx' = rest
               /\ last_response' = s.resp
               /\ last_cmd_acknowledged' = s.ack
               /\ errSeen' = s.err
               /\ lastChecksum' = s.ck
               /\ IF s.ret = None
                  THEN /\ current_index' = s.idx
                       /\ message' = s.msg
                       /\ pending' = more
                       /\ consumed' = seen.consumed
                       /\ split' = seen.split
                       /\ unscanned' = seen.unscanned
                       /\ UNCHANGED <<pc, ctx, result, rlm, elapsed, snapshot>>
                  ELSE Resume(s.ret, s.resp, s.ack, rest, more, seen)
    /\ UNCHANGED <<answered, tx, configVars, last_command, call, wrote>>

\* the caller has taken the result of the call
Release ==
    /\ pc = "done"
    /\ rlm' = None
    /\ errSeen' = -1
    /\ wrote' = FALSE
    /\ Goto("idle", "none", None, pending, SeenNothing)
    /\ snapshot' = [resp |-> last_response, ack |-> last_cmd_acknowledged]
    /\ call' = NoCall
    /\ lastChecksum' = NoChecksumCall
    /\ UNCHANGED <<rx, answered, tx, configVars, sessionVars>>

-----------------------------------------------------------------------------
(* The session after try_new returned Ok (283-294): the reset was the last  *)
(* command; the response is the last frame read, an acknowledgement or a    *)
(* notification, and the flag is set if an acknowledgement was among them.  *)

InfoData == MessageData(CmdQueryAvailableSources, 0, 2)

InitSessions ==
    {[resp |-> ACK_MESSAGE_DATA, ack |-> TRUE],
     [resp |-> InfoData, ack |-> TRUE],
     [resp |-> InfoData, ack |-> FALSE]}

Init ==
    /\ rx = <<>>
    /\ pending = FALSE
    /\ answered = FALSE
    /\ feedback_enable \in BOOLEAN
    /\ timeout = MaxTimeout
    /\ tx = EncodeFrame(MessageData(CmdReset, 0, 0), feedback_enable)
    /\ lastChecksum = NoChecksumCall
    /\ last_command = MessageData(CmdReset, 0, 0)
    /\ \E i \in InitSessions :
        /\ last_response = i.resp
        /\ last_cmd_acknowledged = i.ack
        /\ snapshot = i
    /\ pc = "idle"
    /\ ctx = "none"
    /\ call = NoCall
    /\ elapsed = 0
    /\ current_index = 0
    /\ message = ZeroMessage
    /\ result = None
    /\ rlm = None
    /\ consumed = <<>>
    /\ split = FALSE
    /\ unscanned = 0
    /\ wrote = FALSE
    /\ errSeen = -1

Next ==
    \/ DeviceSend
    \/ Arrive
    \/ Volume
    \/ Play
    \/ Reset
    \/ ResetDelayDone
    \/ PollNotReady
    \/ PortFails
    \/ PollRead
    \/ Release

Spec == Init /\ [][Next]_vars

-----------------------------------------------------------------------------
(* try_new, lib.rs 272-295: the session from its construction on.  The      *)
(* device may have sent bytes before the driver starts (boot-time message   *)
(* or line noise) and answers the reset with one burst.                     *)

\* a frame behind so many idle bytes that one read cannot return them all
\* (RECEIVE_BUFFER_SIZE + 1 bytes)
LongBurst ==
    [k \in 1..(RECEIVE_BUFFER_SIZE + 1 - DATA_FRAME_SIZE) |-> 0] \o InfoFrame

BootBytes == {<<>>, <<0>>, ErrorFrame4, InfoFrame, LongBurst}

\* 284-292: the fields as constructed, the discard read under way
InitNew ==
    /\ rx \in BootBytes
    /\ pending = (rx # <<>>)
    /\ answered = FALSE
    /\ feedback_enable \in BOOLEAN
    /\ timeout = MaxTimeout
    /\ tx = <<>>
    /\ lastChecksum = NoChecksumCall
    /\ last_command = MessageData(CmdEnterNormalMode, 0, 0)
    /\ last_response = MessageData(CmdEnterNormalMode, 0, 0)
    /\ last_cmd_acknowledged = FALSE
    /\ snapshot = [resp |-> MessageData(CmdEnterNormalMode, 0, 0), ack |-> FALSE]
    /\ pc = "wait"
    /\ ctx = "discard"
    /\ call = CallRecord("try_new", 0, MessageData(CmdReset, 0, 0))
    /\ elapsed = 0
    /\ current_index = 0
    /\ message = ZeroMessage
    /\ result = None
    /\ rlm = None
    /\ consumed = <<>>
    /\ split = FALSE
    /\ unscanned = 0
    /\ wrote = FALSE
    /\ errSeen = -1

\* 293: `player.reset(reset_duration_override).await?`, its send_command
TryNewReset ==
    /\ pc = "reset_send"
    /\ \/ SendCommand("try_new", 0, MessageData(CmdReset, 0, 0))
       \/ SendCommandWriteFails("try_new", 0, MessageData(CmdReset, 0, 0))

NextNew ==
    \/ DeviceSend
    \/ Arrive
    \/ TryNewReset
    \/ ResetDelayDone
    \/ PollNotReady
    \/ PortFails
    \/ PollRead

SpecNew == InitNew /\ [][NextNew]_vars

-----------------------------------------------------------------------------
(* A device that never stops sending: idle bytes keep coming, so the port   *)
(* reports data ready at every poll.  The executor keeps polling the        *)
(* driver's future, so a step of read_last_message that stays possible is   *)
(* eventually taken.                                                        *)

DeviceStream ==
    /\ pc = "wait"
    /\ wrote
    /\ Len(rx) < MaxBacklog
    /\ rx' = Append(rx, 0)
    /\ pending' = TRUE
    /\ answered' = TRUE
    /\ UNCHANGED <<tx, configVars, sessionVars, progVars, callVars, seenVars>>

NextStream ==
    \/ Play
    \/ DeviceStream
    \/ Arrive
    \/ PollNotReady
    \/ PortFails
    \/ PollRead

SpecStream ==
    /\ Init
    /\ [][NextStream]_vars
    /\ WF_vars(PollNotReady)
    /\ WF_vars(PollRead)

-----------------------------------------------------------------------------
(* The wire looped back: what send_command writes is what the port reads.   *)
(* send_command is public and takes any MessageData; one call is made on a  *)
(* fresh session.                                                           *)

\* the discriminants of Command (113-200)
Catalogue == (1..26) \cup (58..79)

ParamBytes == {0, 255}

\* send_command(MessageData::new(command, param_h, param_l)), lib.rs 406-438
SendRaw ==
    /\ CanCall
    /\ \E c \in Catalogue, ph \in ParamBytes, pl \in ParamBytes :
        \/ SendCommand("send_command", c, MessageData(c, ph, pl))
        \/ SendCommandWriteFails("send_command", c, MessageData(c, ph, pl))

\* the written frame comes back on the receive line
Loopback ==
    /\ pc = "wait"
    /\ rx = <<>>
    /\ ~answered
    /\ rx' = tx
    /\ pending' = TRUE
    /\ answered' = TRUE
    /\ UNCHANGED <<tx, configVars, sessionVars, progVars, callVars, seenVars>>

NextLoopback ==
    \/ SendRaw
    \/ Loopback
    \/ Arrive
    \/ PollNotReady
    \/ PortFails
    \/ PollRead

SpecLoopback == Init /\ [][NextLoopback]_vars

-----------------------------------------------------------------------------
(* The decoder against every frame a device can put on the wire: one        *)
(* volume call on a fresh session, answered by one frame.                   *)

\* The checksum the device computes, from the protocol's definition: the
\* 16-bit two's complement of the sum of the six bytes version..param-low.
DeviceFrame(command, param_h, param_l) ==
    LET sum == VERSION + MSG_LEN + command + 0 + param_h + param_l
        ck  == (U16 - sum) % U16
    IN  <<START_BYTE, VERSION, MSG_LEN, command, 0, param_h, param_l,
          ck \div 256, ck % 256, END_BYTE>>

\* one frame per command byte; for the byte 0 also the frame whose checksum
\* the driver accepts
CodeFrames == {DeviceFrame(c, 0, 0) : c \in Byte} \cup {ZeroFrameQuirk}

\* error notifications: the eight fault codes and values around them
ErrorCodes == (0..9) \cup {255}
ErrorFrames == {DeviceFrame(CmdNotifyError, 0, pl) : pl \in ErrorCodes}

\* acknowledgement notifications with any parameter bytes
ReplyParams == {0, 1, 255}
ReplyFrames ==
    {DeviceFrame(CmdNotifyReply, ph, pl) : ph \in ReplyParams, pl \in ReplyParams}

DeviceAnswer ==
    /\ pc = "wait"
    /\ rx = <<>>
    /\ ~answered
    /\ \E f \in CodeFrames \cup ErrorFrames \cup ReplyFrames : rx' = f
    /\ pending' = TRUE
    /\ answered' = TRUE
    /\ UNCHANGED <<tx, configVars, sessionVars, progVars, callVars, seenVars>>

NextDecode ==
    \/ Volume
    \/ DeviceAnswer
    \/ Arrive
    \/ PollNotReady
    \/ PortFails
    \/ PollRead

\* the session try_new left when a notification was the last frame it read
InitDecode == Init /\ last_response = InfoData

SpecDecode == InitDecode /\ [][NextDecode]_vars

-----------------------------------------------------------------------------
(* Properties *)

\* the call that is running or has returned went through send_command with
\* a command other than Reset
IsCommandCall == call.api \in {"volume", "play"}

HasByte(q, b) == \E i \in 1..Len(q) : q[i] = b

\* frames of the device whose checksum matches and whose command is known
ValidFrames == {AckFrame, ErrorFrame4, ErrorFrame9, InfoFrame}

\* a frame read alone, in one batch, with nothing after it
OneBatch(frame, resp0) ==
    ScanBatch(Scanner(0, ZeroMessage, resp0, FALSE, -1, NoChecksumCall),
              frame, 1, FALSE, "ok")

SumOf(buf) == SumBytes(buf, Len(buf))

\* C1: every byte of every read batch is scanned; none that follows a
\* completed frame in the same batch is dropped.
C1_EveryByteOfBatchScanned == unscanned = 0

\* C2: a checksum-valid error notification decoded during send_command makes
\* the call fail with the error classified from its param-low, whatever comes
\* before or after it.
C2_ErrorFrameFailsCall ==
    (pc = "done" /\ IsCommandCall /\ errSeen # -1 /\ result # ErrSerialPort) =>
        result = (IF errSeen \in 1..8 THEN ErrModuleError(errSeen) ELSE ErrUnknown)

\* C3 as stated: feedback enabled, command other than Reset, the wait ends on
\* the timeout without an acknowledgement: the call fails with FailedAck.
C3_TimeoutWithoutAckIsFailedAck ==
    (/\ pc = "done" /\ IsCommandCall /\ wrote /\ feedback_enable
     /\ ~last_cmd_acknowledged /\ rlm = ErrUserTimeout) =>
        result = ErrFailedAck

\* C3 amended: feedback enabled, command other than Reset, no acknowledgement
\* seen when the call returns: the call never returns Ok; it fails with
\* UserTimeout when the device sent nothing, and with FailedAck exactly when
\* the wait itself returned Ok.
C3_NoAckNeverOk ==
    (/\ pc = "done" /\ IsCommandCall /\ wrote /\ feedback_enable
     /\ ~last_cmd_acknowledged) =>
        /\ result # Ok
        /\ (~answered /\ result # ErrSerialPort) => result = ErrUserTimeout
        /\ (result = ErrFailedAck) <=> (rlm = Ok)

C3_Witness ==
    /\ pc = "done" /\ call.api = "volume" /\ wrote /\ feedback_enable
    /\ ~last_cmd_acknowledged /\ ~answered /\ consumed = <<>>
    /\ result = ErrUserTimeout

\* C4: feedback disabled, the device sends nothing after the command was
\* written: the call returns Ok.
C4_NoFeedbackSilentDeviceOk ==
    (/\ pc = "done" /\ IsCommandCall /\ wrote /\ ~feedback_enable
     /\ ~answered /\ consumed = <<>> /\ result # ErrSerialPort) =>
        result = Ok

\* the scenario of C5: volume(20), feedback enabled, the device delivers
\* exactly `frame` and nothing else, the port does not fail
VolumeScenario(frame) ==
    /\ pc = "done" /\ call.api = "volume" /\ call.arg = 20 /\ feedback_enable
    /\ wrote /\ ctx = "send" /\ consumed = frame /\ rx = <<>>

\* C5 as stated: the device delivers 7E FF 06 41 00 00 00 00 BF EF and the
\* call returns Ok.
C5_SpecFrameAcknowledges == VolumeScenario(SpecAckFrame) => result = Ok

\* C5 amended: the acknowledgement frame whose checksum is valid is
\* 7E FF 06 41 00 00 00 FE BA EF, and with it the call returns Ok; the frame
\* with the checksum bytes 00 BF fails the call with BrokenMessage.
C5_AckFrameAcknowledges ==
    /\ VolumeScenario(AckFrame) => result = Ok
    /\ VolumeScenario(SpecAckFrame) => result = ErrBrokenMessage

C5_Witness == VolumeScenario(AckFrame) /\ result = Ok /\ last_response = ACK_MESSAGE_DATA

\* C6: volume(v > 30) and play(t > 2999) return BadParameter without any
\* transport operation and leave the session unchanged; in range, the
\* command frame is written.
C6_RangeChecks ==
    [][(pc = "idle" /\ pc' # "idle" /\ call'.api \in {"volume", "play"}) =>
        IF \/ (call'.api = "volume" /\ call'.arg > 30)
           \/ (call'.api = "play" /\ call'.arg > 2999)
        THEN /\ pc' = "done"
             /\ result' = ErrBadParameter
             /\ ~wrote'
             /\ UNCHANGED <<rx, pending, answered, tx, last_command,
                            last_response, last_cmd_acknowledged>>
        ELSE /\ wrote'
             /\ pc' = "wait" =>
                 /\ Len(tx') = 10
                 /\ tx'[4] = (IF call'.api = "volume" THEN 6 ELSE 3)
                 /\ tx'[6] * 256 + tx'[7] = call'.arg
                 /\ last_command' = call'.data
    ]_vars

C6_Witness ==
    /\ pc = "done" /\ call.api = "volume" /\ call.arg = 31
    /\ result = ErrBadParameter /\ ~wrote

\* C7: a valid frame read in two or more batches, at any split point, gives
\* the outcome and the last response of the same frame read in one batch.
C7_SplitFrameReassembled ==
    /\ (pc = "wait" /\ split) =>
          \A F \in ValidFrames : \A k \in 1..9 :
              consumed = SubSeq(F, 1, k) =>
                  current_index = k /\ SubSeq(message, 1, k) = consumed
    /\ (pc = "done" /\ ctx = "send" /\ split /\ consumed \in ValidFrames) =>
          LET o == OneBatch(consumed, snapshot.resp)
          IN  /\ rlm = o.ret
              /\ last_response = o.resp
              /\ last_cmd_acknowledged = o.ack

C7_Witness ==
    /\ pc = "done" /\ ctx = "send" /\ split /\ consumed = AckFrame
    /\ feedback_enable /\ result = Ok /\ last_response = ACK_MESSAGE_DATA

\* C8: bytes in front of the first start marker are discarded at index 0, and
\* the valid frame after them gives the outcome it gives without them.
C8_GarbagePrefixDiscarded ==
    /\ (pc = "wait" /\ consumed # <<>> /\ ~HasByte(consumed, START_BYTE)) =>
          /\ current_index = 0
          /\ last_response = snapshot.resp
          /\ last_cmd_acknowledged = snapshot.ack
    /\ (pc = "done" /\ ctx = "send") =>
          \A g \in Garbage : \A F \in ValidFrames :
              consumed = g \o F =>
                  LET o == OneBatch(F, snapshot.resp)
                  IN  /\ rlm = o.ret
                      /\ last_response = o.resp
                      /\ last_cmd_acknowledged = o.ack

C8_Witness ==
    /\ pc = "done" /\ ctx = "send" /\ consumed = <<0>> \o AckFrame
    /\ rlm = Ok /\ last_response = ACK_MESSAGE_DATA /\ last_cmd_acknowledged

\* C9: a candidate whose byte at the end-marker position is not 0xEF puts the
\* scanner back at index 0; it returns nothing and changes neither the last
\* response nor the acknowledged flag (here the candidate is an
\* acknowledgement but for its end marker; the only way out of the wait after
\* it is the timeout, or a failure of the port).
C9_BadEndMarkerRejected ==
    consumed = BadEndFrame =>
        /\ last_response = snapshot.resp
        /\ last_cmd_acknowledged = snapshot.ack
        /\ pc = "wait" => current_index = 0
        /\ pc = "done" => rlm \in {ErrUserTimeout, ErrSerialPort}

C9_Witness ==
    /\ pc = "wait" /\ ctx = "send" /\ consumed = BadEndFrame
    /\ current_index = 0 /\ ~last_cmd_acknowledged

\* C10 as stated: the checksum c of a payload makes (sum + c) mod 65536 = 0.
C10_ChecksumNegatesSum ==
    lastChecksum.buf # <<>> =>
        (SumOf(lastChecksum.buf) + lastChecksum.val) % 65536 = 0

\* C10 amended: that holds for every payload whose command byte (the third)
\* is not 0; when it is 0, (sum + 2 + c) mod 65536 = 0.
C10_ChecksumNegatesSumButForZeroCommand ==
    lastChecksum.buf # <<>> =>
        /\ lastChecksum.val \in 0..65535
        /\ IF lastChecksum.buf[3] # 0
           THEN (SumOf(lastChecksum.buf) + lastChecksum.val) % 65536 = 0
           ELSE (SumOf(lastChecksum.buf) + 2 + lastChecksum.val) % 65536 = 0

C10_Witness ==
    /\ lastChecksum.buf = <<255, 6, 0, 0, 0, 0>>
    /\ lastChecksum.val = 65273

\* C11: the frame the encoder of send_command produces, read back by
\* read_last_message, passes the checksum comparison and gives a last
\* response equal to the command data sent, for every Command of the
\* catalogue, every parameter pair and either feedback flag.
C11_RoundTrip ==
    (call.api = "send_command" /\ ctx = "send" /\ consumed = tx) =>
        /\ ValidChecksum(consumed)
        /\ last_response = call.data

\* the wait of a command ended after reading exactly the frame `consumed`
DecodedOne == pc = "done" /\ ctx = "send" /\ Len(consumed) = DATA_FRAME_SIZE

\* C12: the conversion of the command byte succeeds exactly for the codes of
\* the catalogue; a checksum-valid frame with any other code fails the decode
\* (Unknown) and leaves the last response unchanged.
C12_ConversionMatchesCatalogue ==
    (DecodedOne /\ consumed \in CodeFrames /\ ValidChecksum(consumed)) =>
        IF consumed[INDEX_CMD + 1] \in Catalogue
        THEN last_response = MessageData(consumed[INDEX_CMD + 1], 0, 0)
        ELSE rlm = ErrUnknown /\ last_response = snapshot.resp

\* C13: the wait ends on a checksum-valid error notification: the error
\* returned is ModuleError(k) when param-low is one of the codes k in 1..8
\* (4 is ModuleError::Checksum), and Unknown for any other param-low.
C13_ErrorClassified ==
    (DecodedOne /\ consumed \in ErrorFrames) =>
        LET pl == consumed[INDEX_PARAM_L + 1]
        IN  /\ rlm = (IF pl \in 1..8 THEN ErrModuleError(pl) ELSE ErrUnknown)
            /\ result = rlm
            /\ last_response = MessageData(CmdNotifyError, 0, pl)

C13_Witness ==
    /\ DecodedOne /\ call.api = "volume" /\ call.arg = 20
    /\ consumed = DeviceFrame(CmdNotifyError, 0, ModuleErrorChecksum)
    /\ result = ErrModuleError(ModuleErrorChecksum)

\* C18 as stated: a checksum-valid frame whose command is 0x41 marks the
\* acknowledgement as observed whatever its parameter bytes are, and with
\* feedback enabled the call whose wait ends on it returns Ok.
C18_AnyReplyAcknowledges ==
    (DecodedOne /\ consumed \in ReplyFrames) =>
        /\ last_cmd_acknowledged
        /\ feedback_enable => result = Ok

\* C18 amended: a checksum-valid 0x41 frame marks the acknowledgement as
\* observed exactly when both its parameter bytes are 0 (the frame equals
\* ACK_MESSAGE_DATA); with feedback enabled the call whose wait ends on it
\* returns Ok then, and fails with FailedAck when a parameter byte is not 0.
C18_OnlyExactReplyAcknowledges ==
    (DecodedOne /\ consumed \in ReplyFrames) =>
        LET exact == consumed[INDEX_PARAM_H + 1] = 0 /\ consumed[INDEX_PARAM_L + 1] = 0
        IN  /\ last_response.command = CmdNotifyReply
            /\ rlm = Ok
            /\ last_cmd_acknowledged <=> exact
            /\ feedback_enable => result = (IF exact THEN Ok ELSE ErrFailedAck)

C18_Witness ==
    /\ DecodedOne /\ feedback_enable
    /\ consumed = DeviceFrame(CmdNotifyReply, 0, 1)
    /\ ~last_cmd_acknowledged /\ result = ErrFailedAck

\* C14: try_new fails only when the bytes of the reset command cannot be
\* written (no frame was written), and then with Init; in every other case,
\* whatever the device sent or did not send, it returns Ok.
C14_InitFailsOnlyOnWrite ==
    (pc = "done" /\ call.api = "try_new") =>
        result = (IF tx = <<>> THEN ErrInit ELSE Ok)

\* last responses an earlier call, failed or not, can have left behind
AltResponses == {MessageData(CmdNotifyError, 0, ModuleErrorChecksum), ACK_MESSAGE_DATA}

\* the scan of the next byte of the wire, as the last byte of its batch or
\* not, had the earlier calls left the last response resp0 behind
ScanWith(resp0, last, more, ub) ==
    ScanByte(Scanner(current_index, message, resp0, last_cmd_acknowledged,
                     errSeen, lastChecksum),
             rx[1], last, more, ub)

\* two scans of one byte that differ in nothing but a last response that
\* the byte did not replace
SameScan(a, b, resp_a, resp_b) ==
    /\ a.ret = b.ret /\ a.idx = b.idx /\ a.msg = b.msg /\ a.ack = b.ack
    /\ a.brk = b.brk /\ a.used = b.used
    /\ a.resp = b.resp \/ (a.resp = resp_a /\ b.resp = resp_b)

\* C15: a call starts from a clean slate whatever the call before it left:
\* its wait begins at index 0 with the acknowledged flag cleared and the
\* command recorded, and what each byte scanned makes of the wait (outcome,
\* index, acknowledged flag, decoded response) does not depend on the last
\* response left behind.
C15_SessionNotPoisoned ==
    /\ (pc = "wait" /\ ctx = "send" /\ consumed = <<>>) =>
          /\ current_index = 0 /\ message = ZeroMessage
          /\ ~last_cmd_acknowledged /\ last_command = call.data
          /\ errSeen = -1
    /\ (pc = "wait" /\ rx # <<>>) =>
          \A last \in BOOLEAN, more \in BOOLEAN, ub \in UBOutcomes :
              \A a \in {ScanWith(last_response, last, more, ub)} :
                  \A alt \in AltResponses :
                      SameScan(a, ScanWith(alt, last, more, ub), last_response, alt)

\* with feedback enabled a last response that is an error notification was
\* left by a call that failed: the next call is accepted and returns Ok
C15_Witness ==
    /\ pc = "done" /\ ctx = "send" /\ IsCommandCall /\ feedback_enable
    /\ snapshot.resp = MessageData(CmdNotifyError, 0, ModuleErrorChecksum)
    /\ consumed = AckFrame /\ result = Ok

\* q holds the frame f as a run of consecutive bytes
HasFrame(q, f) ==
    \E i \in 1..(Len(q) - Len(f) + 1) : SubSeq(q, i, i + Len(f) - 1) = f

\* C19: with feedback enabled and a command other than Reset, the call
\* returns Ok only if the acknowledgement frame was among the bytes read
\* after its own frame was written: when the wait begins the flag is cleared,
\* whatever the earlier calls (try_new and reset among them) left in it.
C19_OkOnlyOnOwnAck ==
    /\ (pc = "wait" /\ ctx = "send" /\ consumed = <<>>) =>
          /\ ~last_cmd_acknowledged
          /\ tx = EncodeFrame(call.data, feedback_enable)
    /\ (pc = "done" /\ IsCommandCall /\ feedback_enable /\ result = Ok) =>
          /\ wrote /\ ctx = "send" /\ last_cmd_acknowledged
          /\ HasFrame(consumed, AckFrame)

\* the last response is still the acknowledgement an earlier call (or
\* try_new) read; the device did not answer this command, and the call did
\* not return Ok
C19_Witness ==
    /\ pc = "done" /\ IsCommandCall /\ feedback_enable /\ wrote
    /\ last_response = ACK_MESSAGE_DATA /\ ~answered /\ consumed = <<>>
    /\ ~last_cmd_acknowledged /\ result = ErrUserTimeout

\* C17: a completed frame whose transmitted checksum differs from the
\* recomputed one is never swallowed: the call whose wait scanned it (here as
\* the first ten bytes of the wait) does not return Ok.
C17_ChecksumMismatchSurfaced ==
    (/\ pc = "done" /\ IsCommandCall /\ ctx = "send"
     /\ Len(consumed) >= DATA_FRAME_SIZE
     /\ SubSeq(consumed, 1, DATA_FRAME_SIZE) = SpecAckFrame
     /\ ~ValidChecksum(SpecAckFrame)) =>
        result # Ok

\* frames with both markers in place, whatever their checksum
MarkedFrames == SingleFrames \ {BadEndFrame}

\* C20: the fill index is always in 0..9 and the frame buffer keeps its ten
\* cells; the scan loop never looks past the bytes a read returned, which are
\* at most 30; and when the loop is left after a completed frame without
\* returning (more data follows), the index is back at 0.
C20_ScannerInBounds ==
    /\ current_index \in 0..INDEX_END_BYTE
    /\ DOMAIN message = 1..DATA_FRAME_SIZE
    /\ unscanned \in 0..(RECEIVE_BUFFER_SIZE - 1)
    /\ (pc = "wait" /\ unscanned > 0) => current_index = 0
    /\ (pc = "wait" /\ consumed \in MarkedFrames) => current_index = 0
    /\ (pc = "wait" /\ ~split) => Len(consumed) <= RECEIVE_BUFFER_SIZE

\* a frame was completed with more data behind it, and the wait goes on
C20_Witness ==
    /\ pc = "wait" /\ ctx = "send" /\ consumed = InfoFrame /\ rx = AckFrame
    /\ current_index = 0 /\ last_response = InfoData

\* a burst longer than the receive buffer: the read returned 30 bytes of it
C20_WitnessFullBuffer ==
    /\ pc = "wait" /\ ~split /\ Len(consumed) = RECEIVE_BUFFER_SIZE
    /\ Len(rx) = 1 /\ current_index = INDEX_END_BYTE

\* C16: the wait loop always terminates: whatever the transport delivers,
\* a stream that keeps reporting data ready included, a call that is waiting
\* eventually returns.
C16_WaitTerminates == (pc = "wait") ~> (pc = "done")

====
